---- MODULE Spec2Model ----
(***************************************************************************)
(* Model of neuralgcm/experimental/typing.py: the Timedelta value type     *)
(* (normalisation, +, *, pytree flatten/unflatten, dataclass equality) and *)
(* the KeyWithCosLatFactor ordered key.                                    *)
(*                                                                         *)
(* Python values are tagged records: an int is [type |-> "int", v |-> n],  *)
(* a str is [type |-> "str", v |-> <<code points>>], a Timedelta is        *)
(* [type |-> "Timedelta", days |-> d, seconds |-> s].  Python ints are     *)
(* unbounded, so TLA+ integers model them exactly.                         *)
(***************************************************************************)
EXTENDS Integers, Sequences, FiniteSets, TLC

VARIABLES
  acc,    \* the Timedelta the program currently holds (`delta` in the tests)
  last,   \* the operation evaluated last: its operands and its outcome
  steps   \* number of arithmetic results fed back into acc since construction

vars == <<acc, last, steps>>

-----------------------------------------------------------------------------
(* Bounds of the model.                                                    *)

MaxDays == 1
MaxScalar == 2
MaxSteps == 3
MaxFactorOrder == 2

-----------------------------------------------------------------------------
(* Python values.                                                          *)

PyInt(n) == [type |-> "int", v |-> n]
PyStr(s) == [type |-> "str", v |-> s]
None == [type |-> "NoneType"]
NotImplemented == [type |-> "NotImplementedType"]
TypeError == [type |-> "TypeError"]
AssertionError == [type |-> "AssertionError"]

\* Numeric = float | int | Array; Array = np.ndarray | jax.Array.
\* isinstance(x, Numeric) on the tag of x.
Numeric == {"float", "int", "ndarray", "Array"}

\* divmod on Python ints: floor division, remainder with the divisor's sign.
\* For the positive divisor used here TLA+'s \div and % are exactly that.
divmod(a, b) == <<a \div b, a % b>>

\* The divisor written in __post_init__.
SecondsPerDay == 24 * 60 * 60

-----------------------------------------------------------------------------
(* Timedelta.                                                              *)

\* Mutant: C-style division, which truncates toward zero and leaves the
\* remainder with the sign of the dividend.
Timedelta_post_init_Truncating(days, seconds) ==
  LET q == IF seconds >= 0 THEN seconds \div SecondsPerDay
                           ELSE -((-seconds) \div SecondsPerDay)
      r == seconds - q * SecondsPerDay
  IN  [type |-> "Timedelta", days |-> days + q, seconds |-> r]

\* Mutant: the carry is computed but never added to days.
Timedelta_post_init_DropCarry(days, seconds) ==
  [type |-> "Timedelta", days |-> days,
   seconds |-> divmod(seconds, SecondsPerDay)[2]]

\* __post_init__ on the fields the generated __init__ has just stored.
Timedelta_post_init(days, seconds) ==
  LET dm == divmod(seconds, SecondsPerDay)
      days_delta == dm[1]
      seconds_n == dm[2]
  IN  [type |-> "Timedelta", days |-> days + days_delta, seconds |-> seconds_n]

\* Field defaults of the dataclass.
Timedelta_default_days == 0
Timedelta_default_seconds == 0

\* Timedelta(days, seconds): the dataclass __init__, which ends in __post_init__.
Timedelta(days, seconds) == Timedelta_post_init(days, seconds)

\* Mutant: a raw int is coerced to a duration in seconds.
Timedelta_add_Coercing(self, other) ==
  IF other.type = "Timedelta"
    THEN Timedelta(self.days + other.days, self.seconds + other.seconds)
    ELSE IF other.type = "int"
      THEN Timedelta(self.days, self.seconds + other.v)
      ELSE NotImplemented

\* Mutant: the seconds of the right operand are forgotten.
Timedelta_add_DaysOnly(self, other) ==
  IF other.type # "Timedelta"
    THEN NotImplemented
    ELSE Timedelta(self.days + other.days, self.seconds)

\* Timedelta.__add__
Timedelta_add(self, other) ==
  IF other.type # "Timedelta"
    THEN NotImplemented
    ELSE LET days == self.days + other.days
             seconds == self.seconds + other.seconds
         IN  Timedelta(days, seconds)

\* Mutant: the isinstance check is missing; a Timedelta operand is taken for
\* its number of days and anything else for 1.
Timedelta_mul_Unchecked(self, other) ==
  LET k == IF other.type = "int" THEN other.v
           ELSE IF other.type = "Timedelta" THEN other.days ELSE 1
  IN  Timedelta(self.days * k, self.seconds * k)

\* Mutant: only the days are scaled.
Timedelta_mul_DaysOnly(self, other) ==
  IF other.type \notin Numeric
    THEN NotImplemented
    ELSE Timedelta(self.days * other.v, self.seconds)

\* Timedelta.__mul__
Timedelta_mul(self, other) ==
  IF other.type \notin Numeric
    THEN NotImplemented
    ELSE Timedelta(self.days * other.v, self.seconds * other.v)

\* Mutant: the class defines no __rmul__.
Timedelta_rmul_Missing(self, other) == NotImplemented

\* __rmul__ = __mul__
Timedelta_rmul(self, other) == Timedelta_mul(self, other)

\* Mutant: the leaves come out in the other order.
Timedelta_tree_flatten_Swapped(self) ==
  [leaves |-> <<self.seconds, self.days>>, aux_data |-> None]

\* Timedelta.tree_flatten
Timedelta_tree_flatten(self) ==
  [leaves |-> <<self.days, self.seconds>>, aux_data |-> None]

\* Mutant: the fields are stored without running __post_init__.
Timedelta_tree_unflatten_Raw(aux_data, leaves) ==
  IF aux_data # None
    THEN AssertionError
    ELSE [type |-> "Timedelta", days |-> leaves[1], seconds |-> leaves[2]]

\* Timedelta.tree_unflatten
Timedelta_tree_unflatten(aux_data, leaves) ==
  IF aux_data # None
    THEN AssertionError
    ELSE Timedelta(leaves[1], leaves[2])

\* The __eq__ that @dataclasses.dataclass generates: the field tuples are
\* compared when both operands are of the class.
Timedelta_eq(self, other) ==
  IF other.type # self.type
    THEN NotImplemented
    ELSE <<self.days, self.seconds>> = <<other.days, other.seconds>>

-----------------------------------------------------------------------------
(* KeyWithCosLatFactor: @dataclasses.dataclass(eq=True, order=True,        *)
(* frozen=True).  The generated __eq__ and __lt__ compare the field tuples *)
(* (name, factor_order) when both operands are of the class.               *)

Min(a, b) == IF a <= b THEN a ELSE b

\* str < str: by code point at the first position where the strings differ,
\* a proper prefix being the smaller.
str_lt(s, t) ==
  LET n == Min(Len(s), Len(t))
      diff == {i \in 1..n : s[i] # t[i]}
  IN  IF diff = {} THEN Len(s) < Len(t)
      ELSE LET i == CHOOSE j \in diff : \A m \in diff : j <= m
           IN  s[i] < t[i]

\* a < b on two field values of the same type.
value_lt(a, b) == IF a.type = "str" THEN str_lt(a.v, b.v) ELSE a.v < b.v

\* tuple < tuple: the items at the first index where the tuples differ
\* decide; with none, the shorter tuple is the smaller.
tuple_lt(x, y) ==
  LET n == Min(Len(x), Len(y))
      diff == {i \in 1..n : x[i] # y[i]}
  IN  IF diff = {} THEN Len(x) < Len(y)
      ELSE LET i == CHOOSE j \in diff : \A m \in diff : j <= m
           IN  value_lt(x[i], y[i])

KeyWithCosLatFactor(name, factor_order) ==
  [type |-> "KeyWithCosLatFactor", name |-> PyStr(name),
   factor_order |-> PyInt(factor_order)]

\* Mutant: the key is ordered by name alone.
KeyWithCosLatFactor_lt_NameOnly(self, other) ==
  IF other.type # self.type
    THEN NotImplemented
    ELSE tuple_lt(<<self.name>>, <<other.name>>)

\* KeyWithCosLatFactor.__lt__ (generated by order=True)
KeyWithCosLatFactor_lt(self, other) ==
  IF other.type # self.type
    THEN NotImplemented
    ELSE tuple_lt(<<self.name, self.factor_order>>,
                  <<other.name, other.factor_order>>)

\* KeyWithCosLatFactor.__eq__ (generated by eq=True)
KeyWithCosLatFactor_eq(self, other) ==
  IF other.type # self.type
    THEN NotImplemented
    ELSE <<self.name, self.factor_order>> = <<other.name, other.factor_order>>

-----------------------------------------------------------------------------
(* The interpreter's evaluation of  lhs + rhs  and  lhs * rhs : the left   *)
(* operand's method, then (operands of different types) the right          *)
(* operand's reflected method, then TypeError.  int's own methods return   *)
(* NotImplemented for a non-number, NoneType defines none, and Timedelta   *)
(* defines __add__, __mul__ and __rmul__ but no __radd__.                  *)

BinaryAdd(lhs, rhs) ==
  LET direct == IF lhs.type = "Timedelta" THEN Timedelta_add(lhs, rhs)
                ELSE NotImplemented
  IN  IF direct # NotImplemented THEN direct ELSE TypeError

BinaryMul(lhs, rhs) ==
  LET direct == IF lhs.type = "Timedelta" THEN Timedelta_mul(lhs, rhs)
                ELSE NotImplemented
      reflected == IF rhs.type = "Timedelta" /\ lhs.type # rhs.type
                     THEN Timedelta_rmul(rhs, lhs)
                     ELSE NotImplemented
  IN  IF direct # NotImplemented THEN direct
      ELSE IF reflected # NotImplemented THEN reflected
      ELSE TypeError

\* jax.tree.map(lambda x: k * x, tree) on a Timedelta: flatten, map the
\* leaves, unflatten with the same aux_data.
tree_map_scale(k, tree) ==
  LET flat == Timedelta_tree_flatten(tree)
      leaves == [i \in 1..Len(flat.leaves) |-> k * flat.leaves[i]]
  IN  Timedelta_tree_unflatten(flat.aux_data, leaves)

-----------------------------------------------------------------------------
(* Inputs.                                                                 *)

DayInputs == (-MaxDays)..MaxDays

\* Seconds on both sides of zero and of whole days: the values the tests
\* construct (0, -1, half a day, one day) and their neighbours, which carry
\* -2, -1, 0, 1 or 2 days.
SecondInputs ==
  {-SecondsPerDay - 1, -SecondsPerDay, -1, 0, 1, 12 * 60 * 60,
   SecondsPerDay - 1, SecondsPerDay, SecondsPerDay + 1,
   2 * SecondsPerDay + 12 * 60 * 60}

Scalars == (-MaxScalar)..MaxScalar

TimedeltaInputs == {Timedelta(d, s) : d \in DayInputs, s \in SecondInputs}

\* Operands that are not Timedeltas: ints and None.
OtherInputs == {PyInt(k) : k \in Scalars} \cup {None}

Operands == TimedeltaInputs \cup OtherInputs

\* The int the test adds to a Timedelta.
AddedInTest == 60

\* Right operands of +.
AddOperands == Operands \cup {PyInt(AddedInTest)}

\* Names as code points: "", "a", "ab", "b".
NameInputs == {<<>>, <<97>>, <<97, 98>>, <<98>>}

FactorOrders == (-MaxFactorOrder)..MaxFactorOrder

KeyInputs == {KeyWithCosLatFactor(n, f) : n \in NameInputs, f \in FactorOrders}

-----------------------------------------------------------------------------
(* Operations.                                                             *)

Init ==
  /\ acc = Timedelta(Timedelta_default_days, Timedelta_default_seconds)
  /\ last = [op |-> "Timedelta()", result |-> acc]
  /\ steps = 0

\* delta = Timedelta()
ConstructDefault ==
  /\ acc' = Timedelta(Timedelta_default_days, Timedelta_default_seconds)
  /\ last' = [op |-> "Timedelta()", result |-> acc']
  /\ steps' = 0

\* delta = Timedelta(d, s)
Construct ==
  \E d \in DayInputs, s \in SecondInputs :
    /\ acc' = Timedelta(d, s)
    /\ last' = [op |-> "Timedelta", days |-> d, seconds |-> s, result |-> acc']
    /\ steps' = 0

\* The outcome of a binary operation: a Timedelta result replaces acc, an
\* error leaves it as it was.
Evaluate(op, lhs, rhs, result) ==
  /\ steps < MaxSteps
  /\ last' = [op |-> op, lhs |-> lhs, rhs |-> rhs, result |-> result]
  /\ acc' = IF result.type = "Timedelta" THEN result ELSE acc
  /\ steps' = steps + 1

\* delta + other
Add == \E other \in AddOperands : Evaluate("add", acc, other, BinaryAdd(acc, other))

\* other + delta, other not a Timedelta
RAdd == \E other \in OtherInputs : Evaluate("add", other, acc, BinaryAdd(other, acc))

\* delta * other
Mul == \E other \in Operands : Evaluate("mul", acc, other, BinaryMul(acc, other))

\* other * delta, other not a Timedelta
RMul == \E other \in OtherInputs : Evaluate("mul", other, acc, BinaryMul(other, acc))

\* jax.tree.map(lambda x: k * x, delta)
TreeMap ==
  \E k \in Scalars :
    /\ steps < MaxSteps
    /\ acc' = tree_map_scale(k, acc)
    /\ last' = [op |-> "tree_map", lhs |-> acc, k |-> k,
                flat |-> Timedelta_tree_flatten(acc), result |-> acc']
    /\ steps' = steps + 1

Next == ConstructDefault \/ Construct \/ Add \/ RAdd \/ Mul \/ RMul \/ TreeMap

Spec == Init /\ [][Next]_vars

\* The operands of a comparison are drawn first, the comparison then acts on
\* them: two Timedelta argument pairs, or three keys.
InitCompare ==
  /\ acc = Timedelta(Timedelta_default_days, Timedelta_default_seconds)
  /\ steps = 0
  /\ \/ \E d1 \in DayInputs, s1 \in SecondInputs,
           d2 \in DayInputs, s2 \in SecondInputs :
          last = [op |-> "timedelta_args", d1 |-> d1, s1 |-> s1,
                  d2 |-> d2, s2 |-> s2]
     \/ \E x \in KeyInputs, y \in KeyInputs, z \in KeyInputs :
          last = [op |-> "key_args", keys |-> <<x, y, z>>]

\* Timedelta(d1, s1) == Timedelta(d2, s2)
CompareTimedeltas ==
  /\ last.op = "timedelta_args"
  /\ LET lhs == Timedelta(last.d1, last.s1)
         rhs == Timedelta(last.d2, last.s2)
     IN  last' = [op |-> "eq", d1 |-> last.d1, s1 |-> last.s1,
                  d2 |-> last.d2, s2 |-> last.s2,
                  lhs |-> lhs, rhs |-> rhs, result |-> Timedelta_eq(lhs, rhs)]
  /\ UNCHANGED <<acc, steps>>

\* x < y and x == y for every pair out of three keys
CompareKeys ==
  /\ last.op = "key_args"
  /\ LET keys == last.keys
     IN  last' = [op |-> "compare_keys", keys |-> keys,
                  lt |-> [i \in 1..3 |-> [j \in 1..3 |->
                            KeyWithCosLatFactor_lt(keys[i], keys[j])]],
                  eq |-> [i \in 1..3 |-> [j \in 1..3 |->
                            KeyWithCosLatFactor_eq(keys[i], keys[j])]]]
  /\ UNCHANGED <<acc, steps>>

NextCompare == CompareTimedeltas \/ CompareKeys

\* The comparisons of the two value types, on freshly constructed values.
SpecCompare == InitCompare /\ [][NextCompare]_vars

-----------------------------------------------------------------------------
(* Properties.                                                             *)

\* The duration of a Timedelta in seconds.
Total(td) == td.days * 86400 + td.seconds

\* A Timedelta whose seconds lie in [0, 86400).
Normalized(td) ==
  /\ td.type = "Timedelta"
  /\ 0 <= td.seconds
  /\ td.seconds < 86400

IsArithmetic == last.op \in {"add", "mul"}

\* C1: every Timedelta the program holds or has just produced, whatever
\* sequence of construction, +, * by an int (either order) and
\* flatten/map/unflatten led to it, has 0 <= seconds < 86400.
C1_SecondsAlwaysNormalized ==
  /\ Normalized(acc)
  /\ last.result.type = "Timedelta" => Normalized(last.result)

\* C1 witness: a flatten/map/unflatten with a negative factor, applied to the
\* result of an earlier operation whose seconds are not zero.
C1_Witness ==
  /\ last.op = "tree_map"
  /\ last.k < 0
  /\ last.lhs.seconds > 0
  /\ steps = MaxSteps
  /\ acc.days < 0

\* C2: Timedelta(d, s) has days = d + floor(s / 86400) and
\* seconds = s - 86400 * floor(s / 86400); Timedelta() is Timedelta(0, 0);
\* Timedelta(0, 86400) == Timedelta(1, 0); Timedelta(0, -1) == Timedelta(-1, 86399).
C2_ConstructionFloors ==
  /\ last.op = "Timedelta" =>
       LET q == acc.days - last.days
       IN  /\ q * 86400 <= last.seconds
           /\ last.seconds < (q + 1) * 86400
           /\ acc.seconds = last.seconds - q * 86400
           /\ (last.days = 0 /\ last.seconds = 86400) =>
                Timedelta_eq(acc, Timedelta(1, 0)) = TRUE
           /\ (last.days = 0 /\ last.seconds = -1) =>
                /\ Timedelta_eq(acc, Timedelta(-1, 86399)) = TRUE
                /\ acc.days = -1
                /\ acc.seconds = 86399
  /\ last.op = "Timedelta()" =>
       /\ Timedelta_eq(acc, Timedelta(0, 0)) = TRUE
       /\ acc.days = 0
       /\ acc.seconds = 0

\* C2 witness: Timedelta(0, -1) has been constructed.
C2_Witness ==
  /\ last.op = "Timedelta"
  /\ last.days = 0
  /\ last.seconds = -1
  /\ acc.days = -1
  /\ acc.seconds = 86399

\* C3: a + b for two Timedeltas is Timedelta(a.days + b.days,
\* a.seconds + b.seconds), normalized, and lasts as long as a and b together.
C3_AdditionSumsDurations ==
  (last.op = "add" /\ last.lhs.type = "Timedelta" /\ last.rhs.type = "Timedelta") =>
    /\ Normalized(last.result)
    /\ last.result = Timedelta(last.lhs.days + last.rhs.days,
                               last.lhs.seconds + last.rhs.seconds)
    /\ Total(last.result) = Total(last.lhs) + Total(last.rhs)
    /\ acc = last.result

\* C3 witness: Timedelta(1, 43200) + Timedelta(1, 43200) gave Timedelta(3, 0).
C3_Witness ==
  /\ last.op = "add"
  /\ last.lhs = [type |-> "Timedelta", days |-> 1, seconds |-> 43200]
  /\ last.rhs = last.lhs
  /\ last.result = [type |-> "Timedelta", days |-> 3, seconds |-> 0]

\* C4: d + x with x not a Timedelta ends in TypeError: nothing is produced
\* and d is as it was.
C4_AddRejectsNonTimedelta ==
  (last.op = "add" /\ last.lhs.type = "Timedelta" /\ last.rhs.type # "Timedelta") =>
    /\ last.result = TypeError
    /\ acc = last.lhs

\* C4 witness: d + 60 was evaluated on a d with a non-zero duration.
C4_Witness ==
  /\ last.op = "add"
  /\ last.lhs.type = "Timedelta"
  /\ Total(last.lhs) # 0
  /\ last.rhs = PyInt(60)
  /\ last.result = TypeError

\* The Timedelta and the int of a product of one of each.
ScaledOperand == IF last.lhs.type = "Timedelta" THEN last.lhs ELSE last.rhs
ScalarOperand == IF last.lhs.type = "Timedelta" THEN last.rhs ELSE last.lhs

IsScaling ==
  /\ last.op = "mul"
  /\ {last.lhs.type, last.rhs.type} = {"Timedelta", "int"}

\* C5: d * k and k * d agree for an int k of any sign, both are
\* Timedelta(d.days * k, d.seconds * k), normalized, and last k times as
\* long as d.
C5_ScalingCommutes ==
  IsScaling =>
    LET d == ScaledOperand
        k == ScalarOperand.v
    IN  /\ Normalized(last.result)
        /\ last.result = Timedelta(d.days * k, d.seconds * k)
        /\ Total(last.result) = k * Total(d)
        /\ BinaryMul(last.rhs, last.lhs) = last.result
        /\ acc = last.result

\* C5 witness: k * d with k negative and d of non-zero seconds.
C5_Witness ==
  /\ IsScaling
  /\ last.lhs.type = "int"
  /\ last.lhs.v < 0
  /\ last.rhs.seconds > 0
  /\ last.result.days < 0
  /\ last.result.seconds > 0

\* C6: a * b for two Timedeltas ends in TypeError in either order: nothing
\* is produced and a is as it was.
C6_MulRejectsTimedelta ==
  (last.op = "mul" /\ last.lhs.type = "Timedelta" /\ last.rhs.type = "Timedelta") =>
    /\ last.result = TypeError
    /\ BinaryMul(last.rhs, last.lhs) = TypeError
    /\ acc = last.lhs

\* C6 witness: a * b was evaluated on two different Timedeltas of non-zero days.
C6_Witness ==
  /\ last.op = "mul"
  /\ last.lhs.type = "Timedelta"
  /\ last.rhs.type = "Timedelta"
  /\ last.lhs # last.rhs
  /\ last.lhs.days # 0
  /\ last.rhs.days # 0
  /\ last.result = TypeError

\* C7: flattening d gives the leaves (days, seconds) and no aux data, and
\* unflattening the leaves times k gives d * k; with k = 1 it gives d back.
C7_TreeMapIsScaling ==
  last.op = "tree_map" =>
    /\ last.flat.leaves = <<last.lhs.days, last.lhs.seconds>>
    /\ last.flat.aux_data = None
    /\ last.result = BinaryMul(last.lhs, PyInt(last.k))
    /\ last.k = 1 => last.result = last.lhs

\* C7 witness: the leaves of Timedelta(1, 43200) were doubled into Timedelta(3, 0).
C7_Witness ==
  /\ last.op = "tree_map"
  /\ last.k = 2
  /\ last.lhs = [type |-> "Timedelta", days |-> 1, seconds |-> 43200]
  /\ last.result = [type |-> "Timedelta", days |-> 3, seconds |-> 0]

\* Every operation that did not end in TypeError gave a normalized Timedelta.
NoErrorMeansNormalized == last.result # TypeError => Normalized(last.result)

\* C8 as claimed: + and * end in TypeError only when a Timedelta is added to
\* a non-Timedelta or multiplied by a Timedelta, and every other input gives
\* a normalized Timedelta.
C8_OnlyTwoErrors ==
  /\ IsArithmetic =>
       (last.result = TypeError <=>
          \/ last.op = "add" /\ {last.lhs.type, last.rhs.type} # {"Timedelta"}
          \/ last.op = "mul" /\ {last.lhs.type, last.rhs.type} = {"Timedelta"})
  /\ NoErrorMeansNormalized

\* C8 amended: + ends in TypeError exactly when an operand is not a
\* Timedelta, * exactly when the other operand is not a number (a Timedelta,
\* but also None); construction from ints and every other + and * give a
\* normalized Timedelta.
C8_ErrorsExactlyUnsupported ==
  /\ IsArithmetic =>
       (last.result = TypeError <=>
          \/ last.op = "add" /\ {last.lhs.type, last.rhs.type} # {"Timedelta"}
          \/ last.op = "mul" /\ {last.lhs.type, last.rhs.type} \cap Numeric = {})
  /\ NoErrorMeansNormalized

\* C8 witness: a Timedelta times None ended in TypeError.
C8_Witness ==
  /\ last.op = "mul"
  /\ last.lhs.type = "Timedelta"
  /\ last.rhs = None
  /\ last.result = TypeError

\* C9: Timedelta(d1, s1) == Timedelta(d2, s2) exactly when the normalized
\* fields agree, which is exactly when d1*86400 + s1 = d2*86400 + s2.
C9_EqualityIsEqualDuration ==
  last.op = "eq" =>
    /\ last.result \in BOOLEAN
    /\ last.result <=>
         (last.lhs.days = last.rhs.days /\ last.lhs.seconds = last.rhs.seconds)
    /\ last.result <=>
         (last.d1 * 86400 + last.s1 = last.d2 * 86400 + last.s2)

\* C9 witness: Timedelta(0, -1) == Timedelta(-1, 86399) was found true.
C9_Witness ==
  /\ last.op = "eq"
  /\ last.d1 = 0
  /\ last.s1 = -1
  /\ last.d2 = -1
  /\ last.s2 = 86399
  /\ last.result = TRUE

\* s comes before t in the dictionary: at some position s has run out or
\* holds a smaller code point, and the two agree before it.
DictionaryBefore(s, t) ==
  \E i \in 1..Len(t) :
    /\ i <= Len(s) + 1
    /\ \A j \in 1..(i - 1) : s[j] = t[j]
    /\ i <= Len(s) => s[i] < t[i]

\* (x.name, x.factor_order) is lexicographically smaller than y's pair.
PairBefore(x, y) ==
  \/ DictionaryBefore(x.name.v, y.name.v)
  \/ x.name.v = y.name.v /\ x.factor_order.v < y.factor_order.v

\* C10: x < y exactly when (name, factor_order) of x is lexicographically
\* smaller, x == y exactly when both fields agree, and < is a strict total
\* order: of x < y, x == y, y < x exactly one holds, and < is transitive.
C10_KeyOrderIsLexicographic ==
  last.op = "compare_keys" =>
    /\ \A i \in 1..3, j \in 1..3 :
         LET x == last.keys[i]
             y == last.keys[j]
         IN  /\ last.lt[i][j] <=> PairBefore(x, y)
             /\ last.eq[i][j] <=>
                  (x.name.v = y.name.v /\ x.factor_order.v = y.factor_order.v)
             /\ Cardinality({c \in {"lt", "eq", "gt"} :
                   \/ c = "lt" /\ last.lt[i][j]
                   \/ c = "eq" /\ last.eq[i][j]
                   \/ c = "gt" /\ last.lt[j][i]}) = 1
    /\ (last.lt[1][2] /\ last.lt[2][3]) => last.lt[1][3]

\* C10 witness: ("a", 1), ("a", 2), ("b", 0) were compared and found ascending.
C10_Witness ==
  /\ last.op = "compare_keys"
  /\ last.keys = <<KeyWithCosLatFactor(<<97>>, 1), KeyWithCosLatFactor(<<97>>, 2),
                   KeyWithCosLatFactor(<<98>>, 0)>>
  /\ last.lt[1][2]
  /\ last.lt[2][3]
  /\ last.lt[1][3]

====
